---- MODULE Spec2Model ----
(***************************************************************************)
(* Model of the live chat relay: POST /api/send-messages persists a        *)
(* message through the mongoose Message model, GET /api/stream-messages    *)
(* opens one MongoDB change stream per request and forwards every insert   *)
(* event to the request's ReadableStream as a server-sent-event frame.     *)
(***************************************************************************)
EXTENDS Integers, Sequences, FiniteSets, TLC

\* ---------------------------------------------------------------- bounds
MaxConns == 2
MaxReqs == 2
MaxLog == 2

Conns == 1..MaxConns
Reqs == 1..MaxReqs

\* ---------------------------------------------------------------- strings
\* A string is a sequence of one-character strings; an absent JSON field
\* (undefined after destructuring) is the one-element sequence Missing.
WS == " "
Missing == <<"undefined">>
\* request bodies a client can send: a field absent, empty, made of
\* whitespace, padded with whitespace, or plain
Bodies ==
  { [username |-> Missing,     content |-> <<"b">>],
    [username |-> <<>>,        content |-> <<"b">>],
    [username |-> <<"a">>,     content |-> <<WS>>],
    [username |-> <<"a">>,     content |-> <<"b">>],
    [username |-> <<WS, "a">>, content |-> <<"b", WS>>] }

RECURSIVE TrimStart(_)
TrimStart(s) ==
  IF s # <<>> /\ Head(s) = WS THEN TrimStart(Tail(s)) ELSE s

RECURSIVE TrimEnd(_)
TrimEnd(s) ==
  IF s # <<>> /\ s[Len(s)] = WS THEN TrimEnd(SubSeq(s, 1, Len(s) - 1)) ELSE s

\* the schema's `trim: true` setter: String.prototype.trim
Trim(s) == TrimEnd(TrimStart(s))

\* JavaScript `!v` for a string or undefined
Falsy(v) == v = Missing \/ v = <<>>

\* `if (!username || !content)` of the POST handler
InvalidInput(username, content) == Falsy(username) \/ Falsy(content)

\* `required: true` of a String path, checked on the value after the setter
Required(v) == v # Missing /\ Len(v) > 0

\* a schema path declared without `trim: true`
CastPathNoTrim(v) == v

\* casting of one path of messageSchema: the trim setter
CastPath(v) == IF v = Missing THEN Missing ELSE Trim(v)

SchemaValid(username, content) ==
  Required(CastPath(username)) /\ Required(CastPath(content))

\* the document mongoose builds for Message.create({ username, content }):
\* generated _id, the two cast paths, timestamps: true, versionKey
NewDocument(id, username, content, now) ==
  [_id |-> id, username |-> CastPath(username), content |-> CastPath(content),
   createdAt |-> now, updatedAt |-> now, __v |-> 0]

\* ---------------------------------------------------------------- frames
\* field order of a stored document as the driver returns it
DocFields == <<"_id", "username", "content", "createdAt", "updatedAt", "__v">>

\* JSON.stringify: an object becomes the token sequence "{", one
\* <<key, value>> member per own field in field order, "}"; undefined
\* becomes the text undefined inside the template literal.
JSONstringify(doc, fields) ==
  IF doc = [undefined |-> TRUE]
    THEN <<"undefined">>
    ELSE <<"{">> \o [i \in 1..Len(fields) |-> <<fields[i], doc[fields[i]]>>] \o <<"}">>

\* a frame ended by a single newline
MessageStringOneNewline(doc) == <<"data: ", JSONstringify(doc, DocFields), "\n">>

\* `data: ${JSON.stringify(newMessage)}\n\n`
MessageString(doc) == <<"data: ", JSONstringify(doc, DocFields), "\n\n">>

\* change.fullDocument: present on insert events only
FullDocument(change) ==
  IF "fullDocument" \in DOMAIN change THEN change.fullDocument
                                      ELSE [undefined |-> TRUE]

\* a chunk put in front of the chunks already enqueued
EnqueueFront(q, chunk) == <<chunk>> \o q

\* controller.enqueue(chunk)
Enqueue(q, chunk) == Append(q, chunk)

\* a listener without the operationType test
OnChangeNoFilter(q, change) == Enqueue(q, MessageString(FullDocument(change)))

\* the "change" listener: what the stream's queue becomes for one event
OnChange(q, change) ==
  IF change.operationType = "insert"
    THEN Enqueue(q, MessageString(FullDocument(change)))
    ELSE q

\* a change stream resumed from the beginning of the log
FeedStartBeginning(log) == 0

\* Message.watch() without resume options: the feed starts after the last
\* event committed when the server opens the cursor
FeedStart(log) == Len(log)

\* ---------------------------------------------------------------- state
VARIABLES
  readyState,  \* mongoose.connection.readyState: 0, 1 connected, 2 connecting
  attempts,    \* mongoose.connect() calls that have not settled yet
  alive,       \* FALSE after process.exit(1)
  store,       \* documents of the messages collection
  oplog,       \* change events of the collection, in commit order
  conn,        \* per GET request: "none", "open", "aborted" (req.signal)
  feed,        \* per GET request: change stream "none", "pending", "open",
               \* "errored", "closed"
  feedPos,     \* index in oplog of the next event the change stream emits
  ctrl,        \* ReadableStream controller: "none", "readable", "closed"
  queue,       \* chunks enqueued on the stream so far
  openedAt,    \* Len(oplog) when GET returned its response
  subAt,       \* Len(oplog) when the change stream's cursor was opened
  backlog,     \* history: an insert was committed while an earlier one was
               \* still waiting to be emitted on this change stream
  early,       \* history: GET returned before any POST request arrived
  threw,       \* an exception left one of the connection's listeners uncaught
  dropped,     \* history: an insert was waiting on the change stream when
               \* the abort listener closed it
  pc,          \* per POST request: "idle","connecting","validate","create","done"
  body,        \* per POST request: the parsed { username, content }
  resp,        \* per POST request: the response
  thrown       \* per POST request: the exception that left the handler

vars == <<readyState, attempts, alive, store, oplog, conn, feed, feedPos, ctrl,
          queue, openedAt, subAt, backlog, early, threw, dropped, pc, body, resp,
          thrown>>

connVars == <<conn, feed, feedPos, ctrl, queue, openedAt, subAt, backlog, early,
              threw, dropped>>
postVars == <<pc, body, resp, thrown>>

NoBody == [username |-> Missing, content |-> Missing]
NoResp == [status |-> 0, body |-> [none |-> TRUE]]

Init ==
  /\ readyState = 0
  /\ attempts = 0
  /\ alive = TRUE
  /\ store = {}
  /\ oplog = <<>>
  /\ conn = [c \in Conns |-> "none"]
  /\ feed = [c \in Conns |-> "none"]
  /\ feedPos = [c \in Conns |-> 0]
  /\ ctrl = [c \in Conns |-> "none"]
  /\ queue = [c \in Conns |-> <<>>]
  /\ openedAt = [c \in Conns |-> 0]
  /\ subAt = [c \in Conns |-> 0]
  /\ backlog = [c \in Conns |-> FALSE]
  /\ early = [c \in Conns |-> FALSE]
  /\ threw = [c \in Conns |-> FALSE]
  /\ dropped = [c \in Conns |-> FALSE]
  /\ pc = [r \in Reqs |-> "idle"]
  /\ body = [r \in Reqs |-> NoBody]
  /\ resp = [r \in Reqs |-> NoResp]
  /\ thrown = [r \in Reqs |-> "none"]

\* ---------------------------------------------------------------- connectDB
\* a guard that lets only the connected state through
CallsConnectUnlessConnected(rs) == rs # 1

\* `if (mongoose.connection.readyState >= 1) return;`: connectDB() goes on
\* to mongoose.connect() only from the disconnected state
CallsConnect(rs) == ~(rs >= 1)

\* the synchronous part of connectDB(): nothing when readyState >= 1,
\* otherwise mongoose.connect() puts the connection in state connecting
ConnectDBState(rs) == IF rs >= 1 THEN rs ELSE 2

\* the unsettled mongoose.connect() calls after one connectDB() call
ConnectDBAttempts(rs, n) == IF CallsConnect(rs) THEN n + 1 ELSE n

\* mongoose.connect resolves
ConnectOk ==
  /\ alive /\ readyState = 2 /\ attempts > 0
  /\ readyState' = 1
  /\ attempts' = attempts - 1
  /\ UNCHANGED <<alive, store, oplog, connVars, postVars>>

\* mongoose.connect rejects: the catch block calls process.exit(1)
ConnectFail ==
  /\ alive /\ readyState = 2 /\ attempts > 0
  /\ readyState' = 0
  /\ attempts' = attempts - 1
  /\ alive' = FALSE
  /\ UNCHANGED <<store, oplog, connVars, postVars>>

\* an exception nobody catches: Node's default ends the process, a host
\* that listens for uncaughtException logs it and keeps the process
UncaughtOutcomes == {TRUE, FALSE}

\* ---------------------------------------------------------------- GET
\* GET /api/stream-messages: connectDB() is not awaited, start() runs inside
\* the ReadableStream constructor, the response is returned at once.
GET(c) ==
  /\ alive /\ conn[c] = "none"
  /\ \A d \in Conns : d < c => conn[d] # "none"
  /\ readyState' = ConnectDBState(readyState)
  /\ attempts' = ConnectDBAttempts(readyState, attempts)
  /\ feed' = [feed EXCEPT ![c] = "pending"]
  /\ ctrl' = [ctrl EXCEPT ![c] = "readable"]
  /\ conn' = [conn EXCEPT ![c] = "open"]
  /\ openedAt' = [openedAt EXCEPT ![c] = Len(oplog)]
  /\ early' = [early EXCEPT ![c] = \A r \in Reqs : pc[r] = "idle"]
  /\ UNCHANGED <<alive, store, oplog, feedPos, queue, subAt, backlog, threw,
                 dropped, postVars>>

\* the server opens the change stream's cursor (the buffered watch() runs
\* once the connection is up and the aggregate reaches the server)
FeedOpen(c) ==
  /\ alive /\ feed[c] = "pending" /\ readyState = 1
  /\ feed' = [feed EXCEPT ![c] = "open"]
  /\ feedPos' = [feedPos EXCEPT ![c] = FeedStart(oplog) + 1]
  /\ subAt' = [subAt EXCEPT ![c] = Len(oplog)]
  /\ UNCHANGED <<readyState, attempts, alive, store, oplog, conn, ctrl, queue,
                 openedAt, backlog, early, threw, dropped, postVars>>

\* controller.enqueue() and controller.close() throw a TypeError once the
\* stream is no longer readable
ControllerThrows(state) == state # "readable"

\* the listener's enqueue throws: an insert event on a stream that is closed
WriteFails(c, change) ==
  change.operationType = "insert" /\ ControllerThrows(ctrl[c])

\* the change stream emits its next event and the "change" listener runs;
\* nothing catches what the listener throws
FeedDeliver(c) ==
  /\ alive /\ feed[c] = "open" /\ feedPos[c] <= Len(oplog)
  /\ LET change == oplog[feedPos[c]]
     IN IF WriteFails(c, change)
          THEN /\ threw' = [threw EXCEPT ![c] = TRUE]
               /\ alive' \in UncaughtOutcomes
               /\ UNCHANGED queue
          ELSE /\ queue' = [queue EXCEPT ![c] = OnChange(@, change)]
               /\ UNCHANGED <<threw, alive>>
  /\ feedPos' = [feedPos EXCEPT ![c] = @ + 1]
  /\ UNCHANGED <<readyState, attempts, store, oplog, conn, feed, ctrl, openedAt,
                 subAt, backlog, early, dropped, postVars>>

\* the change stream reports an error and is dead: no "error" listener is
\* registered, so the emitter throws
FeedError(c) ==
  /\ alive /\ feed[c] = "open"
  /\ feed' = [feed EXCEPT ![c] = "errored"]
  /\ threw' = [threw EXCEPT ![c] = TRUE]
  /\ alive' \in UncaughtOutcomes
  /\ UNCHANGED <<readyState, attempts, store, oplog, conn, feedPos, ctrl, queue,
                 openedAt, subAt, backlog, early, dropped, postVars>>

\* the client goes away and the response body is cancelled before the abort
\* listener runs: the stream has no cancel() callback, only its state changes
Cancel(c) ==
  /\ alive /\ conn[c] = "open" /\ ctrl[c] = "readable"
  /\ ctrl' = [ctrl EXCEPT ![c] = "closed"]
  /\ UNCHANGED <<readyState, attempts, alive, store, oplog, conn, feed, feedPos,
                 queue, openedAt, subAt, backlog, early, threw, dropped,
                 postVars>>

\* the insert events a change stream has still to emit
Waiting(c) ==
  {i \in 1..Len(oplog) :
     feed[c] = "open" /\ i >= feedPos[c] /\ oplog[i].operationType = "insert"}

\* an abort listener that leaves the change stream as it is
AbortFeedForgotten(f) == f

\* the "abort" listener of req.signal: changeStream.close(); controller.close()
AbortFeed(f) == "closed"
AbortCtrl(s) == "closed"

Abort(c) ==
  /\ alive /\ conn[c] = "open"
  /\ conn' = [conn EXCEPT ![c] = "aborted"]
  /\ feed' = [feed EXCEPT ![c] = AbortFeed(@)]
  /\ ctrl' = [ctrl EXCEPT ![c] = AbortCtrl(@)]
  /\ IF ControllerThrows(ctrl[c])
       THEN /\ threw' = [threw EXCEPT ![c] = TRUE]
            /\ alive' \in UncaughtOutcomes
       ELSE UNCHANGED <<threw, alive>>
  /\ dropped' = [dropped EXCEPT ![c] = Waiting(c) # {}]
  /\ UNCHANGED <<readyState, attempts, store, oplog, feedPos, queue, openedAt,
                 subAt, backlog, early, postVars>>

\* ---------------------------------------------------------------- POST
Resp400 == [status |-> 400, body |-> [error |-> "Invalid input"]]
\* an exception caught in the handler and answered as a success
Resp500AsCreated == [status |-> 201, body |-> [success |-> FALSE]]

\* the answer to an exception that leaves the handler
Resp500 == [status |-> 500, body |-> [error |-> "Internal Server Error"]]
Resp201(result) ==
  [status |-> 201, body |-> [success |-> TRUE, messageId |-> result._id]]

\* POST /api/send-messages up to the first suspension: connectDB() returns at
\* once when readyState >= 1, otherwise it awaits mongoose.connect()
PostCall(r, json) ==
  /\ alive /\ pc[r] = "idle"
  /\ \A q \in Reqs : q < r => pc[q] # "idle"
  /\ readyState' = ConnectDBState(readyState)
  /\ attempts' = ConnectDBAttempts(readyState, attempts)
  /\ pc' = [pc EXCEPT ![r] = IF readyState >= 1 THEN "validate" ELSE "connecting"]
  /\ body' = [body EXCEPT ![r] = json]
  /\ UNCHANGED <<alive, store, oplog, connVars, resp, thrown>>

\* the 400 response built but not returned
CheckMissingReturn(r) ==
  /\ pc' = [pc EXCEPT ![r] = "create"]
  /\ body' = body
  /\ resp' = IF InvalidInput(body[r].username, body[r].content)
               THEN [resp EXCEPT ![r] = Resp400] ELSE resp

\* `if (!username || !content) return NextResponse.json(..., 400)`: the
\* handler ends here with the 400 response, or goes on to Message.create
Check(r) ==
  IF InvalidInput(body[r].username, body[r].content)
    THEN /\ resp' = [resp EXCEPT ![r] = Resp400]
         /\ pc' = [pc EXCEPT ![r] = "done"]
         /\ body' = [body EXCEPT ![r] = NoBody]
    ELSE /\ pc' = [pc EXCEPT ![r] = "create"]
         /\ UNCHANGED <<resp, body>>

\* the handler resumes after `await connectDB()` and `await req.json()`
PostValidate(r) ==
  /\ alive
  /\ \/ pc[r] = "validate"
     \/ pc[r] = "connecting" /\ readyState = 1
  /\ Check(r)
  /\ UNCHANGED <<readyState, attempts, alive, store, oplog, connVars, thrown>>

\* identifier and timestamp of the next document
NextId == Cardinality({i \in 1..Len(oplog) : oplog[i].operationType = "insert"}) + 1

\* the change event of an insert; req (not part of the event the driver
\* reports) remembers the POST request that wrote the document
InsertEvent(doc, r) ==
  [operationType |-> "insert", documentKey |-> doc._id, fullDocument |-> doc,
   req |-> r]

\* `await Message.create({ username, content })` and the 201 response; a
\* validation error, or an insert the store rejects, is thrown out of the
\* handler (HTTP 500); the insert is buffered by mongoose until the
\* connection is up
PostCreate(r) ==
  /\ alive /\ pc[r] = "create"
  /\ \/ /\ ~SchemaValid(body[r].username, body[r].content)
        /\ resp' = [resp EXCEPT ![r] = Resp500]
        /\ thrown' = [thrown EXCEPT ![r] = "ValidationError"]
        /\ UNCHANGED <<store, oplog, backlog>>
     \/ /\ SchemaValid(body[r].username, body[r].content)
        /\ readyState = 1
        /\ resp' = [resp EXCEPT ![r] = Resp500]
        /\ thrown' = [thrown EXCEPT ![r] = "MongoServerError"]
        /\ UNCHANGED <<store, oplog, backlog>>
     \/ /\ SchemaValid(body[r].username, body[r].content)
        /\ readyState = 1
        /\ Len(oplog) < MaxLog
        /\ LET doc == NewDocument(NextId, body[r].username,
                                  body[r].content, NextId)
           IN /\ store' = store \cup {doc}
              /\ oplog' = Append(oplog, InsertEvent(doc, r))
              /\ resp' = [resp EXCEPT ![r] = Resp201(doc)]
        /\ backlog' = [c \in Conns |-> backlog[c] \/ Waiting(c) # {}]
        /\ UNCHANGED thrown
  /\ pc' = [pc EXCEPT ![r] = "done"]
  /\ body' = [body EXCEPT ![r] = NoBody]
  /\ UNCHANGED <<readyState, attempts, alive, conn, feed, feedPos, ctrl, queue,
                 openedAt, subAt, early, threw, dropped>>

\* ---------------------------------------------------------------- other writers
\* another client of the database updates or deletes a stored message: the
\* unfiltered change stream reports these events too
ExternalUpdate(doc) ==
  /\ alive /\ readyState = 1 /\ doc \in store /\ doc.__v = 0
  /\ Len(oplog) < MaxLog
  /\ store' = (store \ {doc}) \cup {[doc EXCEPT !.__v = 1]}
  /\ oplog' = Append(oplog, [operationType |-> "update", documentKey |-> doc._id])
  /\ UNCHANGED <<readyState, attempts, alive, connVars, postVars>>

ExternalDelete(doc) ==
  /\ alive /\ readyState = 1 /\ doc \in store
  /\ Len(oplog) < MaxLog
  /\ store' = store \ {doc}
  /\ oplog' = Append(oplog, [operationType |-> "delete", documentKey |-> doc._id])
  /\ UNCHANGED <<readyState, attempts, alive, connVars, postVars>>

\* ---------------------------------------------------------------- spec
Next ==
  \/ ConnectOk
  \/ ConnectFail
  \/ \E c \in Conns : GET(c)
  \/ \E c \in Conns : FeedOpen(c)
  \/ \E c \in Conns : FeedDeliver(c)
  \/ \E c \in Conns : Abort(c)
  \/ \E r \in Reqs, json \in Bodies : PostCall(r, json)
  \/ \E r \in Reqs : PostValidate(r)
  \/ \E r \in Reqs : PostCreate(r)
  \/ \E doc \in store : ExternalUpdate(doc)
  \/ \E doc \in store : ExternalDelete(doc)

Spec == Init /\ [][Next]_vars

\* ---------------------------------------------------------------- failures
\* The streaming side with its failures: clients that go away without or
\* before the abort signal, change streams that break. The process is warm
\* (the store connection is up) and clients submit well-formed messages.
PlainBodies == {json \in Bodies : json.username = <<"a">> /\ json.content = <<"b">>}
FewReqs == 1..(MaxReqs - 1)

InitWarm ==
  /\ readyState = 1
  /\ attempts = 0
  /\ alive = TRUE
  /\ store = {}
  /\ oplog = <<>>
  /\ conn = [c \in Conns |-> "none"]
  /\ feed = [c \in Conns |-> "none"]
  /\ feedPos = [c \in Conns |-> 0]
  /\ ctrl = [c \in Conns |-> "none"]
  /\ queue = [c \in Conns |-> <<>>]
  /\ openedAt = [c \in Conns |-> 0]
  /\ subAt = [c \in Conns |-> 0]
  /\ backlog = [c \in Conns |-> FALSE]
  /\ early = [c \in Conns |-> FALSE]
  /\ threw = [c \in Conns |-> FALSE]
  /\ dropped = [c \in Conns |-> FALSE]
  /\ pc = [r \in Reqs |-> "idle"]
  /\ body = [r \in Reqs |-> NoBody]
  /\ resp = [r \in Reqs |-> NoResp]
  /\ thrown = [r \in Reqs |-> "none"]

NextFail ==
  \/ \E c \in Conns : GET(c)
  \/ \E c \in Conns : FeedOpen(c)
  \/ \E c \in Conns : FeedDeliver(c)
  \/ \E c \in Conns : FeedError(c)
  \/ \E c \in Conns : Cancel(c)
  \/ \E c \in Conns : Abort(c)
  \/ \E r \in FewReqs, json \in PlainBodies : PostCall(r, json)
  \/ \E r \in FewReqs : PostValidate(r)
  \/ \E r \in FewReqs : PostCreate(r)

FailSpec == InitWarm /\ [][NextFail]_vars

TypeOK ==
  /\ readyState \in {0, 1, 2}
  /\ attempts \in 0..(MaxConns + MaxReqs)
  /\ alive \in BOOLEAN
  /\ Len(oplog) <= MaxLog
  /\ \A c \in Conns :
       /\ conn[c] \in {"none", "open", "aborted"}
       /\ feed[c] \in {"none", "pending", "open", "errored", "closed"}
       /\ ctrl[c] \in {"none", "readable", "closed"}
  /\ \A r \in Reqs : pc[r] \in {"idle", "connecting", "validate", "create", "done"}
  /\ threw \in [Conns -> BOOLEAN] /\ dropped \in [Conns -> BOOLEAN]
  /\ \A r \in Reqs : thrown[r] \in {"none", "ValidationError", "MongoServerError"}

\* ---------------------------------------------------------------- fairness
\* the event loop runs every pending callback: a connection attempt ends, a
\* buffered watch() is opened, a change stream emits the events it holds
FairSpec ==
  /\ Spec
  /\ WF_vars(ConnectOk)
  /\ \A c \in Conns : WF_vars(FeedOpen(c)) /\ WF_vars(FeedDeliver(c))

\* ---------------------------------------------------------------- reading frames
InsertIdx == {i \in 1..Len(oplog) : oplog[i].operationType = "insert"}

\* the member names and a member's value of a JSON object text
JsonKeys(json) == {json[k][1] : k \in 2..(Len(json) - 1)}
JsonGet(json, key) ==
  LET k == CHOOSE k \in 2..(Len(json) - 1) : json[k][1] = key IN json[k][2]

\* positions in a connection's stream of the frames for insert event i
FramesFor(c, i) ==
  {j \in 1..Len(queue[c]) :
     /\ "_id" \in JsonKeys(queue[c][j][2])
     /\ JsonGet(queue[c][j][2], "_id") = oplog[i].documentKey}

\* the insert event a frame was made from
FrameEvent(f) ==
  CHOOSE i \in InsertIdx : oplog[i].documentKey = JsonGet(f[2], "_id")

\* ---------------------------------------------------------------- C1
\* C1: every message inserted while a streaming connection's response had
\* already been returned is eventually enqueued on that connection's stream,
\* unless the connection is closed (or the process ends) first.
C1_Delivery ==
  \A c \in Conns : \A i \in 1..MaxLog :
    (alive /\ conn[c] = "open" /\ i \in InsertIdx /\ openedAt[c] < i)
      ~> (~alive \/ conn[c] # "open" \/ (i \in InsertIdx /\ FramesFor(c, i) # {}))

\* ---------------------------------------------------------------- C2
\* C2: a connection opened before a submission arrived and still open once
\* its change stream has moved past the submission's insert holds exactly
\* one frame for that submission.
C2_ExactlyOnce ==
  \A c \in Conns : \A i \in InsertIdx :
    (early[c] /\ conn[c] = "open" /\ feed[c] = "open" /\ feedPos[c] > i)
      => Cardinality(FramesFor(c, i)) = 1

\* ---------------------------------------------------------------- C3
\* C3: on every connection the frames appear in the commit order of their
\* inserts, also when several inserts were committed before the first of
\* them was enqueued.
C3_Order ==
  \A c \in Conns : \A j, k \in 1..Len(queue[c]) :
    j < k => FrameEvent(queue[c][j]) < FrameEvent(queue[c][k])

C3_Witness ==
  \E c \in Conns : backlog[c] /\ Len(queue[c]) >= 2

\* ---------------------------------------------------------------- C4
EmptyAfterTrim(v) == v = Missing \/ Trim(v) = <<>>

\* C4: POST answers 400 { error: "Invalid input" } exactly when username or
\* content is missing or empty after trimming.
C4_Validation ==
  [][\A r \in Reqs :
       resp'[r] # resp[r] =>
         ((resp'[r] = Resp400) <=>
            (EmptyAfterTrim(body[r].username) \/ EmptyAfterTrim(body[r].content)))
    ]_vars

\* ---------------------------------------------------------------- C5
EventsOf(log, r) ==
  {i \in 1..Len(log) : log[i].operationType = "insert" /\ log[i].req = r}

\* C5: the step that answers 400 changes neither the stored messages nor any
\* stream, and a request answered with 400 is finished and has written
\* nothing.
C5_NoEffect ==
  [][\A r \in Reqs :
       /\ (resp'[r].status = 400 /\ resp[r].status # 400)
            => (store' = store /\ oplog' = oplog /\ queue' = queue)
       /\ resp'[r].status = 400
            => (pc'[r] = "done" /\ EventsOf(oplog', r) = {})
    ]_vars

C5_Witness ==
  \E r \in Reqs : \E c \in Conns :
    resp[r] = Resp400 /\ conn[c] = "open" /\ feed[c] = "open"

\* ---------------------------------------------------------------- C6
\* the step in which request r gets its 201 response persists exactly one
\* message with the given username and content and answers with its id
PersistsAs(r, username, content) ==
  /\ Len(oplog') = Len(oplog) + 1
  /\ SubSeq(oplog', 1, Len(oplog)) = oplog
  /\ LET ev == oplog'[Len(oplog')]
     IN /\ ev.operationType = "insert" /\ ev.req = r
        /\ ev.fullDocument.username = username
        /\ ev.fullDocument.content = content
        /\ ev.fullDocument._id = ev.documentKey
        /\ \A d \in store : d._id # ev.documentKey
        /\ store' = store \cup {ev.fullDocument}
        /\ resp'[r] = [status |-> 201,
                       body |-> [success |-> TRUE, messageId |-> ev.documentKey]]

\* every frame carries the id, username and content of the persisted message
FramesCarryRecord ==
  \A c \in Conns : \A j \in 1..Len(queue[c]) :
    LET json == queue[c][j][2]
    IN /\ {"_id", "username", "content"} \subseteq JsonKeys(json)
       /\ \E i \in InsertIdx :
            /\ JsonGet(json, "_id") = oplog[i].fullDocument._id
            /\ JsonGet(json, "username") = oplog[i].fullDocument.username
            /\ JsonGet(json, "content") = oplog[i].fullDocument.content

Answered(r) == resp'[r] # resp[r]
ValidInput(r) ==
  ~EmptyAfterTrim(body[r].username) /\ ~EmptyAfterTrim(body[r].content)

\* C6 as stated: the persisted username and content equal the submitted
\* values.
C6_Verbatim ==
  [][/\ \A r \in Reqs :
          /\ (Answered(r) /\ resp'[r].status = 201)
               => PersistsAs(r, body[r].username, body[r].content)
          /\ (Answered(r) /\ ValidInput(r) /\ oplog' # oplog)
               => resp'[r].status = 201
     /\ FramesCarryRecord'
    ]_vars

\* C6 amended: for every valid (username, content) whose insert succeeds,
\* POST persists exactly one message whose username and content are the
\* submitted values with leading and trailing whitespace removed, answers
\* 201 with that message's id, and every frame delivered for it carries
\* that id, username and content.
C6_Trimmed ==
  [][/\ \A r \in Reqs :
          /\ (Answered(r) /\ resp'[r].status = 201)
               => /\ ValidInput(r)
                  /\ PersistsAs(r, Trim(body[r].username), Trim(body[r].content))
          /\ (Answered(r) /\ ValidInput(r) /\ oplog' # oplog)
               => resp'[r].status = 201
     /\ FramesCarryRecord'
    ]_vars

C6_Witness ==
  \E r \in Reqs : \E c \in Conns : \E i \in EventsOf(oplog, r) :
    /\ resp[r].status = 201
    /\ resp[r].body.messageId = oplog[i].documentKey
    /\ FramesFor(c, i) # {}

\* ---------------------------------------------------------------- C7
\* a frame is 'data: ', the JSON text of an object with exactly the members
\* `fields` holding the values of an inserted record, and two newlines
FrameHasFields(f, fields, idField) ==
  /\ Len(f) = 3
  /\ f[1] = "data: "
  /\ f[3] = "\n\n"
  /\ Len(f[2]) = Cardinality(fields) + 2
  /\ f[2][1] = "{" /\ f[2][Len(f[2])] = "}"
  /\ JsonKeys(f[2]) = fields
  /\ \E i \in InsertIdx :
       \A key \in fields :
         JsonGet(f[2], key) =
           IF key = idField THEN oplog[i].fullDocument._id
                            ELSE oplog[i].fullDocument[key]

C8_NoReplay ==
  \A c \in Conns :
    /\ feed[c] = "open" => subAt[c] >= openedAt[c]
    /\ \A j \in 1..Len(queue[c]) :
         /\ "_id" \in JsonKeys(queue[c][j][2])
         /\ FrameEvent(queue[c][j]) > subAt[c]
         /\ FrameEvent(queue[c][j]) > openedAt[c]

C8_Witness ==
  \E c \in Conns : \E i \in InsertIdx :
    i <= openedAt[c] /\ Len(queue[c]) >= 1

\* ---------------------------------------------------------------- C9
\* C9: when a change stream emits an event, one frame is appended to the
\* stream if the event is an insert and the stream is left unchanged
\* otherwise; a stream changes in no other step.
C9_InsertOnly ==
  [][\A c \in Conns :
       /\ (feed[c] = "open" /\ feedPos'[c] = feedPos[c] + 1)
            => IF oplog[feedPos[c]].operationType = "insert"
                 THEN /\ Len(queue'[c]) = Len(queue[c]) + 1
                      /\ SubSeq(queue'[c], 1, Len(queue[c])) = queue[c]
                 ELSE queue'[c] = queue[c]
       /\ queue'[c] # queue[c]
            => (feed[c] = "open" /\ feedPos'[c] = feedPos[c] + 1)
    ]_vars

C9_Witness ==
  \E c \in Conns : \E i \in 1..Len(oplog) :
    /\ feed[c] = "open" /\ subAt[c] < i /\ i < feedPos[c]
    /\ oplog[i].operationType # "insert"

\* ---------------------------------------------------------------- C10
OpenFeeds == {c \in Conns : feed[c] \in {"pending", "open"}}
OpenStreams == {c \in Conns : ctrl[c] = "readable"}
OpenConns == {c \in Conns : conn[c] = "open"}

\* C10: once a connection's abort signal has fired its change stream and
\* its stream are both closed; change streams and streams are open only for
\* open connections, so none is open when no connection is.
C10_NoLeak ==
  /\ \A c \in Conns :
       conn[c] = "aborted" => (feed[c] = "closed" /\ ctrl[c] = "closed")
  /\ OpenFeeds \subseteq OpenConns
  /\ OpenStreams \subseteq OpenConns

C10_Witness ==
  \E c \in Conns :
    conn[c] = "aborted" /\ feed[c] = "closed" /\ queue[c] = <<>> /\ feedPos[c] = 0

\* ---------------------------------------------------------------- failures
\* the event loop under failures: a closed change stream emits nothing more
FairFailSpec ==
  /\ FailSpec
  /\ \A c \in Conns : WF_vars(FeedOpen(c)) /\ WF_vars(FeedDeliver(c))

\* the step is the 'change' listener of connection c failing to enqueue
WriteFailStep(c) ==
  /\ feed[c] = "open"
  /\ feedPos'[c] = feedPos[c] + 1
  /\ WriteFails(c, oplog[feedPos[c]])

\* the step is the abort listener of connection c
AbortStep(c) == conn[c] = "open" /\ conn'[c] = "aborted"

\* connection b is being served: its change stream and its stream are open
Served(b) ==
  conn[b] = "open" /\ feed[b] \in {"pending", "open"} /\ ctrl[b] = "readable"

\* ---------------------------------------------------------------- C11
\* C11: when a write to the stream of a connection fails, or a connection
\* disconnects, the process goes on and every other connection being served
\* keeps its change stream, its stream, its frames and its place in the
\* feed.
C11_Isolation ==
  [][\A a \in Conns : \A b \in Conns \ {a} :
       (Served(b) /\ (WriteFailStep(a) \/ AbortStep(a)))
         => /\ alive'
            /\ conn'[b] = conn[b] /\ feed'[b] = feed[b] /\ ctrl'[b] = ctrl[b]
            /\ queue'[b] = queue[b] /\ feedPos'[b] = feedPos[b]
    ]_vars

\* ---------------------------------------------------------------- C12
\* C12: a failed write to the stream of a connection closes the change
\* stream of that connection in the same step and lets no error out of the
\* listener.
C12_Teardown ==
  [][\A c \in Conns :
       WriteFailStep(c)
         => feed'[c] = "closed" /\ threw'[c] = threw[c] /\ alive'
    ]_vars

\* ---------------------------------------------------------------- C13
\* C13: a connection whose change stream has failed gets a change stream
\* again or has its stream closed; it does not stay open on a dead feed.
C13_FeedFailure ==
  \A c \in Conns :
    (alive /\ feed[c] = "errored" /\ ctrl[c] = "readable")
      ~> (~alive \/ feed[c] \in {"pending", "open"} \/ ctrl[c] # "readable")

\* ---------------------------------------------------------------- C14
\* the step is Message.create of request r rejected by the store
InsertFailStep(r) ==
  /\ pc[r] = "create" /\ pc'[r] = "done"
  /\ SchemaValid(body[r].username, body[r].content)
  /\ thrown'[r] = "MongoServerError"

\* C14: when the store rejects the insert of a well-formed submission, the
\* sender gets a 5xx response, the store and the change log are left as they
\* were, and no stream gets a frame, in that step or later, for the request.
C14_PersistFailure ==
  [][\A r \in Reqs :
       /\ InsertFailStep(r)
            => /\ resp'[r].status \in 500..599
               /\ store' = store /\ oplog' = oplog /\ queue' = queue
       /\ (thrown[r] = "MongoServerError" /\ resp[r].status \in 500..599)
            => /\ EventsOf(oplog', r) = {}
               /\ resp'[r] = resp[r]
    ]_vars

C14_Witness ==
  \E r \in Reqs : \E c \in Conns :
    /\ thrown[r] = "MongoServerError" /\ resp[r].status = 500
    /\ feed[c] = "open" /\ ctrl[c] = "readable" /\ feedPos[c] = Len(oplog) + 1
    /\ queue[c] = <<>>

\* ---------------------------------------------------------------- C15
\* C15: a streaming connection is accepted, and a submission is answered,
\* only while the database connection is established; the process ends on a
\* failed connection attempt before it has served any request.
C15_NoTraffic ==
  [][/\ \A c \in Conns :
          (conn[c] = "none" /\ conn'[c] = "open") => readyState = 1
     /\ \A r \in Reqs :
          (resp[r] = NoResp /\ resp'[r] # NoResp) => readyState = 1
     /\ (alive /\ ~alive')
          => /\ \A c \in Conns : conn[c] = "none"
             /\ \A r \in Reqs : resp[r] = NoResp
    ]_vars

\* ---------------------------------------------------------------- C16
LifeRank(state) ==
  CASE state = "none" -> 0
    [] state \in {"pending", "readable"} -> 1
    [] state = "open" -> 2
    [] state = "errored" -> 3
    [] state \in {"closed", "aborted"} -> 4

\* C16: a connection, its change stream and its stream never go back to an
\* earlier stage; once the abort listener of a connection has run, no
\* change event is handled for it and its stream gets no frame, and a closed
\* stream gets no frame.
C16_Lifecycle ==
  [][\A c \in Conns :
       /\ LifeRank(conn'[c]) >= LifeRank(conn[c])
       /\ LifeRank(feed'[c]) >= LifeRank(feed[c])
       /\ LifeRank(ctrl'[c]) >= LifeRank(ctrl[c])
       /\ conn[c] = "aborted"
            => /\ conn'[c] = "aborted" /\ feed'[c] = feed[c] /\ ctrl'[c] = ctrl[c]
               /\ queue'[c] = queue[c] /\ feedPos'[c] = feedPos[c]
               /\ threw'[c] = threw[c]
       /\ ctrl[c] = "closed" => queue'[c] = queue[c]
    ]_vars

\* an insert was waiting on the change stream when the abort listener ran,
\* and the stream has only the frames it had
C16_Witness ==
  \E c \in Conns :
    /\ conn[c] = "aborted" /\ dropped[c]
    /\ \E i \in InsertIdx : i >= feedPos[c] /\ FramesFor(c, i) = {}

\* ---------------------------------------------------------------- C17
\* C17: the abort listener of a connection raises no error, whatever closed
\* the stream before it, and leaves the change stream and the stream
\* closed.
C17_Idempotent ==
  [][\A c \in Conns :
       AbortStep(c)
         => /\ threw'[c] = threw[c] /\ alive'
            /\ feed'[c] = "closed" /\ ctrl'[c] = "closed"
    ]_vars

\* ---------------------------------------------------------------- C18
\* the step is `await connectDB()` of request r completing
ConnectDBReturns(r) ==
  pc[r] \in {"idle", "connecting"} /\ pc'[r] \notin {"idle", "connecting"}

\* C18: connectDB() returns to a request only when the connection is
\* established.
C18_ReturnsConnected ==
  [][\A r \in Reqs : ConnectDBReturns(r) => readyState' = 1]_vars

\* ---------------------------------------------------------------- C19
\* C19: mongoose.connect() is called only while disconnected, at most one
\* attempt is in progress, and none is while connected.
C19_SingleAttempt ==
  [][/\ attempts' > attempts => readyState = 0 /\ attempts = 0
     /\ attempts' <= 1
     /\ readyState' = 1 => attempts' = 0
    ]_vars

\* a second connectDB() call found the first attempt in progress
C19_Witness ==
  /\ readyState = 2 /\ attempts = 1
  /\ conn[1] = "open"
  /\ \E r \in Reqs : pc[r] = "validate"
====
